---- MODULE Spec2Model ----
(***************************************************************************)
(* The browser delivery pipeline of the WireLog client (src/src/client.ts,  *)
(* class WireLog, second definition, lines 359-816): the in-memory event    *)
(* queue, its flush scheduling, the drain coroutine and its retry logic.    *)
(*                                                                         *)
(* JavaScript runs the client on one thread: a step of the model is the    *)
(* code that runs between two suspension points.  The suspension points    *)
(* are the await of the transport call inside drainQueuedEvents and the    *)
(* microtask that runs the .finally callback of flushQueuedEvents.         *)
(* The client is a browser client: isBrowserEnv() is true throughout.      *)
(*                                                                         *)
(* A tracked event is modelled by its sequence number (1 for the first     *)
(* event that track() enqueues, 2 for the second, ...).                    *)
(*                                                                         *)
(* The identity part: the user id in memory and in localStorage (wl_uid),  *)
(* the attribution snapshots and the attribution-sync marker in            *)
(* sessionStorage, and the requests that identify(), query() and           *)
(* trackBatch() send without going through the queue.  A string is a       *)
(* sequence of characters; an object with string keys is a function.       *)
(*                                                                         *)
(* The session part: the device id in memory and in localStorage (wl_did), *)
(* the session id and the time of the last activity, the clock, and the    *)
(* items wl_sid and wl_slast of sessionStorage that the sibling SDK        *)
(* (wirelog.js) keeps.  hexId() draws 96 random bits: the model takes      *)
(* every id it returns to be one that was never returned before.           *)
(***************************************************************************)
EXTENDS Integers, Sequences, FiniteSets, TLC

\* ---------------------------------------------------------------- constants
BATCH_MAX == 10
QUEUE_MAX == 500
RETRY_MAX == 3
RETRY_BASE_MS == 1000
SESSION_TIMEOUT == 30 * 60 * 1000

\* ------------------------------------------------------------------- bounds
\* events tracked in one behaviour of Spec; the events whose transport calls
\* the history variable attempts counts
MaxTrack == 3
\* reset() calls in one behaviour of Spec
MaxResets == 1
\* largest accepted count an API response reports for a batch
MaxAccepted == 1
\* events tracked beyond BATCH_MAX in one behaviour of SpecBatch
MaxExtra == 1
\* events tracked beyond QUEUE_MAX + BATCH_MAX in one behaviour of SpecCap
MaxOver == 2
\* requests of identify(), query() and trackBatch() in flight at one time
MaxCalls == 2
\* events tracked in one behaviour of SpecUser
MaxIdTrack == 1
\* events tracked in one behaviour of SpecFair
MaxFairTrack == 2
\* events tracked in one behaviour of SpecSess
MaxSessTrack == 2
\* steps of the clock in one behaviour of SpecSess
MaxTicks == 2
\* writes of the sibling SDK to localStorage in one behaviour of SpecSess
MaxSibling == 1

VARIABLES
    initialized,    \* _initialized
    queue,          \* _queue: sequence of event numbers, head first
    flushTimer,     \* _flushTimer is armed
    retryTimer,     \* _retryTimer is armed
    retryDelay,     \* the delay _retryTimer was armed with, in ms; 0 when not armed
    retryCount,     \* _retryCount
    flushPromise,   \* _flushPromise: the drain whose promise it holds, 0 for null
    drains,         \* the drainQueuedEvents coroutines that have not been settled
    tracked,        \* number of events enqueued by track() so far
    resets,         \* number of reset() calls so far
    attempts,       \* history: attempts[e] = transport calls that carried event e,
                    \*   for the events e <= MaxTrack the client still holds
    flushCall,      \* history: the last flush() call made while a drain was awaiting
    trackRet,       \* history: what the last track() call resolved with
    apiKey,         \* apiKey
    userId,         \* _userId
    wl_uid,         \* localStorage item wl_uid
    attrIdentified, \* _attrIdentified, the attribution-sync marker
    wl_attr_sync_user, \* sessionStorage item wl_attr_sync_user
    wl_attr_first,  \* sessionStorage item wl_attr_first
    wl_attr_last,   \* sessionStorage item wl_attr_last
    location,       \* the parameters of window.location.search
    calls,          \* the requests of identify(), query(), trackBatch() in flight
    idOk,           \* history: user ids whose identify request got a 2xx answer
    attrAccepted,   \* history: user ids whose identify request with attribution
                    \*   got a 2xx answer since the last reset() or navigation
    identifyRet,    \* history: how the last identify() call went on
    enriched,       \* history: the last event enriched by track()
    deviceId,       \* _deviceId
    sessionId,      \* _sessionId
    lastActivity,   \* _lastActivity
    wl_did,         \* localStorage item wl_did
    wl_sid,         \* sessionStorage item wl_sid
    wl_slast,       \* sessionStorage item wl_slast
    lsThrows,       \* localStorage is blocked: getItem and setItem throw
    now,            \* Date.now()
    hexIds,         \* number of ids hexId() has returned
    stamps,         \* history: stamps[e] = the identity event e was enriched
                    \*   with, for the events e the client still holds
    ticks,          \* number of steps of the clock so far
    sibling         \* number of writes of the sibling SDK so far

vars == <<initialized, queue, flushTimer, retryTimer, retryDelay, retryCount, flushPromise,
          drains, tracked, resets, attempts, flushCall, trackRet,
          apiKey, userId, wl_uid, attrIdentified, wl_attr_sync_user,
          wl_attr_first, wl_attr_last, location, calls, idOk, attrAccepted,
          identifyRet, enriched, deviceId, sessionId, lastActivity, wl_did,
          wl_sid, wl_slast, lsThrows, now, hexIds, stamps, ticks, sibling>>

NoPromise == 0

\* The values Math.floor(Math.random() * 250) takes in the model: the least
\* and the greatest.
Jitters == {0, 249}

Min(a, b) == IF a < b THEN a ELSE b

Range(seq) == {seq[i] : i \in 1..Len(seq)}

\* type FlushReason
FlushReason == {"manual", "batch", "interval", "retry", "hidden", "pagehide"}

\* ------------------------------------------------------------ the transport
\* What fetch() can do: answer with an HTTP status (the body of a 2xx answer
\* may or may not carry a numeric "accepted"), or throw (network unreachable).
Statuses == {0, 200, 304, 400, 429, 503}

Responses ==
    [kind : {"http"}, status : {s \in Statuses : s >= 200 /\ s < 300},
     hasAccepted : {TRUE}, accepted : 0..MaxAccepted]
    \cup [kind : {"http"}, status : Statuses, hasAccepted : {FALSE}, accepted : {0}]
    \cup {[kind |-> "throw", status |-> 0, hasAccepted |-> FALSE, accepted |-> 0]}

\* resp.ok
RespOk(resp) == resp.status >= 200 /\ resp.status < 300

\* post(): the handling of the answer of fetch().  A non-2xx answer throws a
\* WireLogError carrying the status; an exception of fetch() propagates.
post(resp) ==
    IF resp.kind = "throw"
    THEN [threw |-> TRUE, wireLogError |-> FALSE, status |-> 0,
          hasAccepted |-> FALSE, accepted |-> 0]
    ELSE IF ~RespOk(resp)
    THEN [threw |-> TRUE, wireLogError |-> TRUE, status |-> resp.status,
          hasAccepted |-> FALSE, accepted |-> 0]
    ELSE [threw |-> FALSE, wireLogError |-> FALSE, status |-> resp.status,
          hasAccepted |-> resp.hasAccepted, accepted |-> resp.accepted]

\* isRetryableStatus taking every 4xx for retryable
isRetryableStatus4xx(status) ==
    (status >= 400 /\ status < 600) \/ status = 0

isRetryableStatus(status) ==
    status = 429 \/ (status >= 500 /\ status < 600) \/ status = 0

\* acceptedFromTrackResponse ignoring the count the API reports
acceptedFromTrackResponseSize(result, fallback) == fallback

acceptedFromTrackResponse(result, fallback) ==
    IF result.hasAccepted THEN result.accepted ELSE fallback

\* sendTrackBatch(): the outcome of one transport call, after its answer.
sendTrackBatch(events, resp) ==
    LET result == post(resp)
    IN  IF ~result.threw
        THEN [ok |-> TRUE, retryable |-> FALSE,
              accepted |-> acceptedFromTrackResponse(result, Len(events))]
        ELSE IF result.wireLogError
        THEN [ok |-> FALSE, retryable |-> isRetryableStatus(result.status), accepted |-> 0]
        ELSE [ok |-> FALSE, retryable |-> TRUE, accepted |-> 0]

\* sendTrackBatch() asking for keepalive on the visibilitychange signal only
keepaliveHidden(reason) == reason = "hidden"

\* sendTrackBatch(): the keepalive option of its request
keepalive(reason) == reason = "hidden" \/ reason = "pagehide"

\* ------------------------------------------------------ strings and objects
\* null, undefined, an absent storage item: a value that no string equals.
Null == <<"null">>

\* JavaScript truthiness of a string or null
Truthy(x) == x # Null /\ x # <<>>

\* String.prototype.trim
RECURSIVE TrimStart(_)
TrimStart(str) ==
    IF str # <<>> /\ Head(str) = " " THEN TrimStart(Tail(str)) ELSE str

RECURSIVE TrimEnd(_)
TrimEnd(str) ==
    IF str # <<>> /\ str[Len(str)] = " "
    THEN TrimEnd(SubSeq(str, 1, Len(str) - 1)) ELSE str

\* trim() left out
TrimNone(str) == str

Trim(str) == TrimEnd(TrimStart(str))

\* {}
EmptyObj == [k \in {} |-> ""]

hasOwnKeys(obj) == DOMAIN obj # {}

ATTR_PARAMS ==
    <<"utm_source", "utm_medium", "utm_campaign", "utm_term", "utm_content",
      "gclid", "fbclid">>

\* The query strings a page can be loaded with: no parameter; attribution and
\* another parameter; other attribution, one parameter of it empty.
Locations ==
    {EmptyObj,
     ("utm_source" :> "google") @@ ("page" :> "1"),
     ("utm_source" :> "bing") @@ ("gclid" :> "g1") @@ ("utm_medium" :> "")}

extractAttributionFromLocation(search) ==
    [k \in {p \in Range(ATTR_PARAMS) \cap DOMAIN search : search[p] # ""}
        |-> search[k]]

\* A sessionStorage item holding the JSON text of an object, or absent.
NoItem == [present |-> FALSE, value |-> EmptyObj]

\* writeSessionJSON: JSON.stringify keeps every entry of a string map.
JSONItem(obj) == [present |-> TRUE, value |-> obj]

\* readSessionJSON: the entries of the stored object that are non-empty strings
readSessionJSON(item) ==
    IF ~item.present THEN EmptyObj
    ELSE [k \in {p \in DOMAIN item.value : item.value[p] # ""} |-> item.value[k]]

\* applyAttributionProps: target[prefix + key] = attrs[key] for every key of
\* ATTR_PARAMS with a value; a property name is the pair <<prefix, key>>.
applyAttributionProps(target, prefix, attrs) ==
    LET keys == {<<prefix, p>> : p \in {q \in Range(ATTR_PARAMS) \cap DOMAIN attrs :
                                            attrs[q] # ""}}
    IN  [k \in DOMAIN target \cup keys |->
            IF k \in keys THEN attrs[k[2]] ELSE target[k]]

\* hexId(): the n-th id it returns
hexId(n) == <<"#", ToString(n)>>

\* An absent item of sessionStorage that holds a time, and String(time).
NoTime == [present |-> FALSE, value |-> 0]
TimeItem(time) == [present |-> TRUE, value |-> time]

\* lsGet(key): null when the item is absent or localStorage throws
lsGet(s, key) == IF s.lsThrows THEN Null ELSE s[key]

\* lsSet(key, value): nothing is written when localStorage throws
lsSet(s, key, value) == IF s.lsThrows THEN s ELSE [s EXCEPT ![key] = value]

\* The configs the client is constructed or initialized with.
Configs == {[apiKey |-> <<>>], [apiKey |-> <<"p", "k">>]}

\* The user_id values identify() is called with.
RawUserIds == {<<>>, <<" ">>, <<"u">>, <<" ", "u", " ">>, <<"v">>}

\* The user_property_ops identify() is called with: none, or a $set_once and
\* a $set that already hold a property that attribution fills.
CallerOps ==
    {[set_once |-> EmptyObj, set |-> EmptyObj],
     [set_once |-> (<<"initial_", "utm_source">> :> "mine"),
      set |-> (<<"", "plan">> :> "pro") @@ (<<"last_", "utm_source">> :> "mine")]}

IdentifyParams == [user_id : RawUserIds, user_property_ops : CallerOps]

\* The events track() is called with: without and with a user_id.
TrackEvents == {[user_id |-> Null], [user_id |-> <<"w">>]}

PlainEvent == [user_id |-> Null]

NoEvent == [user_id |-> <<"none">>, device_id |-> <<"none">>, session_id |-> <<"none">>]

\* ------------------------------------------------- the client's state record
\* The synchronous code of one step is a composition of functions on the
\* client's fields; ret is the value the called operation returns.
NoRet == [kind |-> "none", accepted |-> 0, buffered |-> FALSE, promise |-> NoPromise]
Value(acc, buf) == [kind |-> "value", accepted |-> acc, buffered |-> buf, promise |-> NoPromise]
PromiseOf(d) == [kind |-> "promise", accepted |-> 0, buffered |-> FALSE, promise |-> d]

Cur ==
    [initialized |-> initialized, queue |-> queue, flushTimer |-> flushTimer,
     retryTimer |-> retryTimer, retryDelay |-> retryDelay, jitter |-> 0,
     retryCount |-> retryCount,
     flushPromise |-> flushPromise, drains |-> drains, attempts |-> attempts,
     ret |-> NoRet,
     apiKey |-> apiKey, userId |-> userId, wl_uid |-> wl_uid,
     attrIdentified |-> attrIdentified, wl_attr_sync_user |-> wl_attr_sync_user,
     wl_attr_first |-> wl_attr_first, wl_attr_last |-> wl_attr_last,
     location |-> location, calls |-> calls, idOk |-> idOk,
     attrAccepted |-> attrAccepted, identifyRet |-> identifyRet,
     enriched |-> enriched,
     deviceId |-> deviceId, sessionId |-> sessionId,
     lastActivity |-> lastActivity, wl_did |-> wl_did, wl_sid |-> wl_sid,
     wl_slast |-> wl_slast, lsThrows |-> lsThrows, now |-> now,
     hexIds |-> hexIds, stamps |-> stamps]

\* The events the client still holds: queued, or in the payload of a
\* transport call in flight.
Live(s) ==
    Range(s.queue) \cup UNION {Range(s.drains[d].batch) : d \in DOMAIN s.drains}

Commit(s) ==
    /\ initialized' = s.initialized
    /\ queue' = s.queue
    /\ flushTimer' = s.flushTimer
    /\ retryTimer' = s.retryTimer
    /\ retryDelay' = s.retryDelay
    /\ retryCount' = s.retryCount
    /\ flushPromise' = s.flushPromise
    /\ drains' = s.drains
    /\ attempts' = [e \in Live(s) \cap DOMAIN s.attempts |-> s.attempts[e]]
    /\ apiKey' = s.apiKey
    /\ userId' = s.userId
    /\ wl_uid' = s.wl_uid
    /\ attrIdentified' = s.attrIdentified
    /\ wl_attr_sync_user' = s.wl_attr_sync_user
    /\ wl_attr_first' = s.wl_attr_first
    /\ wl_attr_last' = s.wl_attr_last
    /\ location' = s.location
    /\ calls' = s.calls
    /\ idOk' = s.idOk
    /\ attrAccepted' = s.attrAccepted
    /\ identifyRet' = s.identifyRet
    /\ enriched' = s.enriched
    /\ deviceId' = s.deviceId
    /\ sessionId' = s.sessionId
    /\ lastActivity' = s.lastActivity
    /\ wl_did' = s.wl_did
    /\ wl_sid' = s.wl_sid
    /\ wl_slast' = s.wl_slast
    /\ lsThrows' = s.lsThrows
    /\ now' = s.now
    /\ hexIds' = s.hexIds
    /\ stamps' = [e \in Live(s) \cap DOMAIN s.stamps |-> s.stamps[e]]

ensureInitialized(s) == s.initialized

\* enqueueBrowserEvents evicting only above capacity (> for >=)
RECURSIVE enqueueBrowserEventsLate(_, _)
enqueueBrowserEventsLate(s, events) ==
    IF events = <<>> THEN s
    ELSE LET q == IF Len(s.queue) > QUEUE_MAX THEN Tail(s.queue) ELSE s.queue
         IN  enqueueBrowserEventsLate([s EXCEPT !.queue = Append(q, Head(events))],
                                      Tail(events))

\* enqueueBrowserEvents putting the events at the head of the queue
RECURSIVE enqueueBrowserEventsHead(_, _)
enqueueBrowserEventsHead(s, events) ==
    IF events = <<>> THEN s
    ELSE LET q == IF Len(s.queue) >= QUEUE_MAX THEN Tail(s.queue) ELSE s.queue
         IN  enqueueBrowserEventsHead([s EXCEPT !.queue = <<Head(events)>> \o q],
                                      Tail(events))

RECURSIVE enqueueBrowserEvents(_, _)
enqueueBrowserEvents(s, events) ==
    IF events = <<>> THEN s
    ELSE LET q == IF Len(s.queue) >= QUEUE_MAX THEN Tail(s.queue) ELSE s.queue
         IN  enqueueBrowserEvents([s EXCEPT !.queue = Append(q, Head(events))],
                                  Tail(events))

\* scheduleFlush with the test of the pending timer inverted
scheduleFlushArmed(s) ==
    IF ~s.flushTimer \/ Len(s.queue) = 0 THEN s
    ELSE [s EXCEPT !.flushTimer = TRUE]

scheduleFlush(s) ==
    IF s.flushTimer \/ Len(s.queue) = 0 THEN s
    ELSE [s EXCEPT !.flushTimer = TRUE]

clearFlushTimer(s) == [s EXCEPT !.flushTimer = FALSE]

clearRetryTimer(s) == [s EXCEPT !.retryTimer = FALSE, !.retryDelay = 0]

\* scheduleRetry computing the delay from the number of earlier failures
scheduleRetryEarlier(s) ==
    IF s.retryTimer \/ Len(s.queue) = 0 THEN s
    ELSE [s EXCEPT !.retryTimer = TRUE,
                   !.retryDelay = Min(30000, RETRY_BASE_MS * 2^(s.retryCount - 1))
                                  + s.jitter]

\* jitter is the value of Math.floor(Math.random() * 250) of this call.
scheduleRetry(s) ==
    IF s.retryTimer \/ Len(s.queue) = 0 THEN s
    ELSE [s EXCEPT !.retryTimer = TRUE,
                   !.retryDelay = Min(30000, RETRY_BASE_MS * 2^s.retryCount)
                                  + s.jitter]

\* ------------------------------------------------------ drainQueuedEvents
\* A drain coroutine: pc is "await" while its transport call is in flight
\* (batch is the call's payload, sendReason its delivery intent) and
\* "returned" once the function has returned result and the .finally
\* callback of flushQueuedEvents has not run yet.  outcome is the local of
\* that name, the outcome of the last answered call (its ok and retryable);
\* keepalive is the option of the call in flight.
NoOutcome == [ok |-> TRUE, retryable |-> TRUE]

NewDrain(reason) ==
    [pc |-> "start", sendReason |-> reason, batch |-> <<>>, totalAccepted |-> 0,
     outcome |-> NoOutcome, keepalive |-> FALSE,
     result |-> [threw |-> FALSE, status |-> 0, accepted |-> 0]]

NewDrainId(s) ==
    CHOOSE d \in 1..(Cardinality(DOMAIN s.drains) + 1) :
        /\ d \notin DOMAIN s.drains
        /\ \A c \in 1..(d - 1) : c \in DOMAIN s.drains

CountSend(att, batch) ==
    [e \in DOMAIN att |-> IF e \in Range(batch) THEN att[e] + 1 ELSE att[e]]

\* return { accepted: totalAccepted }
DrainReturn(s, d) ==
    [s EXCEPT !.drains[d].pc = "returned",
              !.drains[d].batch = <<>>,
              !.drains[d].keepalive = FALSE,
              !.drains[d].result =
                  [threw |-> FALSE, status |-> 0,
                   accepted |-> s.drains[d].totalAccepted]]

\* DrainLoop copying the batch (slice for splice): the events stay queued
DrainLoopSlice(s, d) ==
    IF Len(s.queue) > 0
    THEN LET n == Min(BATCH_MAX, Len(s.queue))
             batch == SubSeq(s.queue, 1, n)
         IN  [s EXCEPT !.drains[d].pc = "await",
                       !.drains[d].batch = batch,
                       !.drains[d].keepalive = keepalive(s.drains[d].sendReason),
                       !.attempts = CountSend(s.attempts, batch)]
    ELSE DrainReturn(s, d)

\* The head of the while loop: with events queued, splice a batch off the
\* head and issue its transport call (the coroutine suspends at the await);
\* with none, leave the loop and return.
DrainLoop(s, d) ==
    IF Len(s.queue) > 0
    THEN LET n == Min(BATCH_MAX, Len(s.queue))
             batch == SubSeq(s.queue, 1, n)
         IN  [s EXCEPT !.queue = SubSeq(s.queue, n + 1, Len(s.queue)),
                       !.drains[d].pc = "await",
                       !.drains[d].batch = batch,
                       !.drains[d].keepalive = keepalive(s.drains[d].sendReason),
                       !.attempts = CountSend(s.attempts, batch)]
    ELSE DrainReturn(s, d)

\* drainQueuedEvents(reason) up to its first await.
drainQueuedEvents(s, d, reason) ==
    LET s0 == [s EXCEPT !.drains = (d :> NewDrain(reason)) @@ s.drains]
    IN  IF Len(s.queue) = 0 THEN DrainReturn(s0, d)
        ELSE DrainLoop(clearRetryTimer(clearFlushTimer(s0)), d)

\* DrainResume putting a failed batch back at the tail of the queue
DrainResumeTail(s0, d, outcome) ==
    LET batch == s0.drains[d].batch
        s == [s0 EXCEPT !.drains[d].outcome =
                            [ok |-> outcome.ok, retryable |-> outcome.retryable]]
    IN  IF outcome.ok
        THEN DrainLoop([s EXCEPT !.drains[d].totalAccepted = @ + outcome.accepted,
                                 !.retryCount = 0,
                                 !.drains[d].sendReason = "batch"], d)
        ELSE IF ~outcome.retryable
        THEN DrainLoop([s EXCEPT !.retryCount = 0], d)
        ELSE LET s1 == [s EXCEPT !.queue = s.queue \o batch,
                                 !.retryCount = @ + 1]
             IN  IF s1.retryCount > RETRY_MAX
                 THEN DrainLoop([s1 EXCEPT !.queue = SubSeq(s1.queue, 1,
                                                            Len(s1.queue) - Len(batch)),
                                           !.retryCount = 0], d)
                 ELSE DrainReturn(scheduleRetry(s1), d)

\* DrainResume keeping the retry counter after a non-retryable failure
DrainResumeKeepCount(s0, d, outcome) ==
    LET batch == s0.drains[d].batch
        s == [s0 EXCEPT !.drains[d].outcome =
                            [ok |-> outcome.ok, retryable |-> outcome.retryable]]
    IN  IF outcome.ok
        THEN DrainLoop([s EXCEPT !.drains[d].totalAccepted = @ + outcome.accepted,
                                 !.retryCount = 0,
                                 !.drains[d].sendReason = "batch"], d)
        ELSE IF ~outcome.retryable
        THEN DrainLoop(s, d)
        ELSE LET s1 == [s EXCEPT !.queue = batch \o s.queue,
                                 !.retryCount = @ + 1]
             IN  IF s1.retryCount > RETRY_MAX
                 THEN DrainLoop([s1 EXCEPT !.queue = SubSeq(s1.queue, Len(batch) + 1,
                                                            Len(s1.queue)),
                                           !.retryCount = 0], d)
                 ELSE DrainReturn(scheduleRetry(s1), d)

\* drainQueuedEvents after the await: the body of the loop for one outcome,
\* up to the next await or the return.
DrainResume(s0, d, outcome) ==
    LET batch == s0.drains[d].batch
        s == [s0 EXCEPT !.drains[d].outcome =
                            [ok |-> outcome.ok, retryable |-> outcome.retryable]]
    IN  IF outcome.ok
        THEN DrainLoop([s EXCEPT !.drains[d].totalAccepted = @ + outcome.accepted,
                                 !.retryCount = 0,
                                 !.drains[d].sendReason = "batch"], d)
        ELSE IF ~outcome.retryable
        THEN DrainLoop([s EXCEPT !.retryCount = 0], d)
        ELSE LET s1 == [s EXCEPT !.queue = batch \o s.queue,
                                 !.retryCount = @ + 1]
             IN  IF s1.retryCount > RETRY_MAX
                 THEN DrainLoop([s1 EXCEPT !.queue = SubSeq(s1.queue, Len(batch) + 1,
                                                            Len(s1.queue)),
                                           !.retryCount = 0], d)
                 ELSE DrainReturn(scheduleRetry(s1), d)

\* ------------------------------------------------------ flushQueuedEvents
\* flushQueuedEvents without the check of this._flushPromise
flushQueuedEventsNoGuard(s, reason) ==
    IF Len(s.queue) = 0 THEN [s EXCEPT !.ret = Value(0, FALSE)]
    ELSE IF ~ensureInitialized(s) THEN [s EXCEPT !.ret = Value(0, TRUE)]
    ELSE LET d == NewDrainId(s)
         IN  [drainQueuedEvents(s, d, reason) EXCEPT !.flushPromise = d,
                                                     !.ret = PromiseOf(d)]

flushQueuedEvents(s, reason) ==
    IF Len(s.queue) = 0 THEN [s EXCEPT !.ret = Value(0, FALSE)]
    ELSE IF ~ensureInitialized(s) THEN [s EXCEPT !.ret = Value(0, TRUE)]
    ELSE IF s.flushPromise # NoPromise THEN [s EXCEPT !.ret = PromiseOf(s.flushPromise)]
    ELSE LET d == NewDrainId(s)
         IN  [drainQueuedEvents(s, d, reason) EXCEPT !.flushPromise = d,
                                                     !.ret = PromiseOf(d)]

\* The .finally callback leaving _flushPromise as it is
FlushFinallyStale(s) ==
    IF Len(s.queue) > 0 /\ ~s.retryTimer THEN scheduleFlush(s) ELSE s

\* The .finally callback of flushQueuedEvents.
FlushFinally(s) ==
    LET s1 == [s EXCEPT !.flushPromise = NoPromise]
    IN  IF Len(s1.queue) > 0 /\ ~s1.retryTimer THEN scheduleFlush(s1) ELSE s1

\* ------------------------------------------------- identity and attribution
\* captureAttribution replacing the first-touch snapshot on every observation
captureAttributionOverwrite(s) ==
    LET current == extractAttributionFromLocation(s.location)
    IN  IF hasOwnKeys(current)
        THEN [s EXCEPT !.wl_attr_first = JSONItem(current),
                       !.wl_attr_last = JSONItem(current)]
        ELSE s

\* captureAttribution() committing the previous last-touch snapshot, when
\* there is one, as first-touch
captureAttributionShift(s) ==
    LET current == extractAttributionFromLocation(s.location)
        last == readSessionJSON(s.wl_attr_last)
    IN  IF hasOwnKeys(current)
        THEN [s EXCEPT !.wl_attr_first = IF hasOwnKeys(last)
                                         THEN JSONItem(last) ELSE JSONItem(current),
                       !.wl_attr_last = JSONItem(current)]
        ELSE s

\* captureAttribution(): the effect on sessionStorage
captureAttribution(s) ==
    LET current == extractAttributionFromLocation(s.location)
        first == readSessionJSON(s.wl_attr_first)
    IN  IF hasOwnKeys(current)
        THEN [s EXCEPT !.wl_attr_first = IF ~hasOwnKeys(first)
                                         THEN JSONItem(current) ELSE @,
                       !.wl_attr_last = JSONItem(current)]
        ELSE s

\* captureAttribution(): the pair { first, last } it returns
CapturedAttribution(s) ==
    LET s1 == captureAttribution(s)
    IN  [first |-> readSessionJSON(s1.wl_attr_first),
         last |-> readSessionJSON(s1.wl_attr_last)]

\* browserIdentity() rotating the session once the timeout is reached
rotateSessionAtTimeout(s) ==
    LET s1 == IF ~Truthy(s.sessionId) \/ s.now - s.lastActivity >= SESSION_TIMEOUT
              THEN [s EXCEPT !.sessionId = hexId(s.hexIds + 1), !.hexIds = @ + 1]
              ELSE s
    IN  [s1 EXCEPT !.lastActivity = s.now]

\* browserIdentity(): session rotation on inactivity
rotateSession(s) ==
    LET s1 == IF ~Truthy(s.sessionId) \/ s.now - s.lastActivity > SESSION_TIMEOUT
              THEN [s EXCEPT !.sessionId = hexId(s.hexIds + 1), !.hexIds = @ + 1]
              ELSE s
    IN  [s1 EXCEPT !.lastActivity = s.now]

\* browserIdentity() trusting the user id it holds in memory
browserIdentityMemory(s) == rotateSession(captureAttribution(s))

\* browserIdentity(): attribution is captured and the user id is read again
\* from localStorage; the identity it returns has user_id this._userId.
browserIdentity(s) ==
    LET s1 == rotateSession(captureAttribution(s))
        storedUid == lsGet(s1, "wl_uid")
    IN  IF Truthy(storedUid) /\ storedUid # s1.userId
        THEN [s1 EXCEPT !.userId = storedUid]
        ELSE s1

\* enrichEvent(event): { ...identity, ...event }, the event of the caller
\* carrying neither device_id nor session_id
enrichEvent(s, event) ==
    LET s1 == browserIdentity(s)
    IN  [s1 EXCEPT !.enriched =
            [user_id |-> IF event.user_id # Null THEN event.user_id ELSE s1.userId,
             device_id |-> s1.deviceId,
             session_id |-> s1.sessionId]]

RECURSIVE enrichEvents(_, _)
enrichEvents(s, events) ==
    IF events = <<>> THEN s
    ELSE enrichEvents(enrichEvent(s, Head(events)), Tail(events))

\* A request of identify(), query() or trackBatch(): its path, the user_id
\* and user_property_ops of its body, the events of its body, and the local
\* shouldMarkAttrSynced of the identify() that awaits it; epoch is the number
\* of reset() calls that returned before the request was issued.
Call(path, userID, ops, mark) ==
    [path |-> path, user_id |-> userID, set_once |-> ops.set_once, set |-> ops.set,
     mark |-> mark, events |-> <<>>, epoch |-> resets]

NoOps == [set_once |-> EmptyObj, set |-> EmptyObj]

\* post(path, body) up to the await of fetch(); an uninitialized client
\* makes no request and post() returns {}.
postStart(s, call) ==
    IF ~s.initialized THEN s ELSE [s EXCEPT !.calls = Append(@, call)]

\* identify() after post() returned without throwing
markAttrSynced(s, userID, mark) ==
    IF mark
    THEN [s EXCEPT !.attrIdentified = userID, !.wl_attr_sync_user = userID]
    ELSE s

\* identify() keeping the user id in memory only
persistUserIdMemoryOnly(s, userID) == [s EXCEPT !.userId = userID]

\* identify(): this._userId = userID; lsSet("wl_uid", userID)
persistUserId(s, userID) == lsSet([s EXCEPT !.userId = userID], "wl_uid", userID)

\* identify(): the merge of attribution into user_property_ops and
\* shouldMarkAttrSynced
mergeAttribution(s, ops, userID) ==
    LET attrs == CapturedAttribution(s)
    IN  IF s.attrIdentified # userID
        THEN [ops |-> [set_once |-> applyAttributionProps(ops.set_once, "initial_",
                                                          attrs.first),
                       set |-> applyAttributionProps(ops.set, "last_", attrs.last)],
              mark |-> hasOwnKeys(attrs.first) \/ hasOwnKeys(attrs.last)]
        ELSE [ops |-> ops, mark |-> FALSE]

\* identify(params) up to the await of fetch().  On an uninitialized client
\* post() returns {} and identify() resumes in the next microtask: that
\* continuation is part of the step.
identifyStart(s, params) ==
    LET userID == Trim(params.user_id)
    IN  IF userID = <<>>
        THEN [s EXCEPT !.identifyRet = "error"]
        ELSE LET s1 == captureAttribution(persistUserId(s, userID))
                 m == mergeAttribution(s1, params.user_property_ops, userID)
                 s2 == postStart(s1, Call("/identify", userID, m.ops, m.mark))
             IN  IF ~s.initialized
                 THEN [markAttrSynced(s2, userID, m.mark) EXCEPT !.identifyRet = "resolved"]
                 ELSE [s2 EXCEPT !.identifyRet = "pending"]

RemoveAt(seq, i) == SubSeq(seq, 1, i - 1) \o SubSeq(seq, i + 1, Len(seq))

\* identify() setting the marker whatever the outcome of the request
identifyResumeAlways(s, i, resp) ==
    LET call == s.calls[i]
        ok == ~post(resp).threw
        s1 == [s EXCEPT !.calls = RemoveAt(@, i),
                        !.idOk = IF ok THEN @ \cup {call.user_id} ELSE @,
                        !.attrAccepted = IF ok /\ call.mark
                                         THEN @ \cup {call.user_id} ELSE @,
                        !.identifyRet = IF ok THEN "resolved" ELSE "rejected"]
    IN  markAttrSynced(s1, call.user_id, call.mark)

\* identify() after the await of post(): the request i is answered by resp.
identifyResume(s, i, resp) ==
    LET call == s.calls[i]
        ok == ~post(resp).threw
        s1 == [s EXCEPT !.calls = RemoveAt(@, i),
                        !.idOk = IF ok THEN @ \cup {call.user_id} ELSE @,
                        !.attrAccepted = IF ok /\ call.mark
                                         THEN @ \cup {call.user_id} ELSE @,
                        !.identifyRet = IF ok THEN "resolved" ELSE "rejected"]
    IN  IF ok THEN markAttrSynced(s1, call.user_id, call.mark) ELSE s1

\* ------------------------------------------------------------------ actions
\* The state after new WireLog(config) on a page loaded with the query string
\* search, in a browser that holds storage (its localStorage items wl_did
\* and wl_uid, the sibling SDK's session in sessionStorage, no attribution).
Construct(config, search, storage) ==
    /\ apiKey = config.apiKey
    /\ initialized = Truthy(config.apiKey)
    /\ lsThrows = storage.lsThrows
    /\ now = storage.now
    /\ LET stored == lsGet(storage, "wl_did")
           first == hexId(1)
       IN  IF Truthy(stored)
           THEN /\ deviceId = stored
                /\ wl_did = storage.wl_did
                /\ sessionId = hexId(1)
                /\ hexIds = 1
           ELSE /\ deviceId = first
                /\ wl_did = lsSet(storage, "wl_did", first).wl_did
                /\ sessionId = hexId(2)
                /\ hexIds = 2
    /\ userId = (IF Truthy(lsGet(storage, "wl_uid"))
                 THEN lsGet(storage, "wl_uid") ELSE Null)
    /\ wl_uid = storage.wl_uid
    /\ lastActivity = storage.now
    /\ wl_sid = storage.wl_sid
    /\ wl_slast = storage.wl_slast
    /\ stamps = <<>>
    /\ ticks = 0
    /\ sibling = 0
    /\ attrIdentified = Null
    /\ wl_attr_sync_user = Null
    /\ location = search
    /\ LET current == extractAttributionFromLocation(search)
           item == IF hasOwnKeys(current) THEN JSONItem(current) ELSE NoItem
       IN  wl_attr_first = item /\ wl_attr_last = item
    /\ calls = <<>>
    /\ idOk = {}
    /\ attrAccepted = {}
    /\ identifyRet = "none"
    /\ enriched = NoEvent
    /\ queue = <<>>
    /\ flushTimer = FALSE
    /\ retryTimer = FALSE
    /\ retryDelay = 0
    /\ retryCount = 0
    /\ flushPromise = NoPromise
    /\ drains = <<>>
    /\ tracked = 0
    /\ resets = 0
    /\ attempts = <<>>
    /\ flushCall = NoRet
    /\ trackRet = NoRet

\* The time of the construction.
StartTime == 2 * SESSION_TIMEOUT

\* A browser whose localStorage and sessionStorage hold nothing.
FreshStorage ==
    [wl_did |-> Null, wl_uid |-> Null, wl_sid |-> Null, wl_slast |-> NoTime,
     lsThrows |-> FALSE, now |-> StartTime]

\* new WireLog(config) in a fresh browser session.
Constructor(config, search) == Construct(config, search, FreshStorage)

\* A client on a page whose query string has no parameter.
Init == \E config \in Configs : Constructor(config, EmptyObj)

\* init(config)
initBody(config) ==
    /\ Commit([Cur EXCEPT !.apiKey = IF Truthy(config.apiKey) THEN config.apiKey ELSE @,
                          !.initialized = TRUE])
    /\ UNCHANGED <<ticks, sibling, tracked, resets, flushCall, trackRet>>

init == \E config \in Configs : initBody(config)

\* track() comparing the queue length to the threshold with > for >=
trackBodyLate(event) ==
    IF ~ensureInitialized(Cur)
    THEN /\ Commit(enrichEvent(Cur, event))
         /\ trackRet' = Value(0, TRUE)
         /\ UNCHANGED <<ticks, sibling, tracked, resets, flushCall>>
    ELSE LET body == enrichEvent(Cur, event)
             s0 == [body EXCEPT
                       !.attempts = IF tracked + 1 <= MaxTrack
                                    THEN (tracked + 1 :> 0) @@ @ ELSE @,
                       !.stamps = (tracked + 1 :> body.enriched) @@ @]
             s1 == enqueueBrowserEvents(s0, <<tracked + 1>>)
             s2 == IF Len(s1.queue) > BATCH_MAX
                   THEN flushQueuedEvents(s1, "batch")
                   ELSE scheduleFlush(s1)
         IN  /\ Commit(s2)
             /\ tracked' = tracked + 1
             /\ trackRet' = Value(1, TRUE)
             /\ UNCHANGED <<ticks, sibling, resets, flushCall>>

\* track(event), the event being enriched into event number tracked + 1
trackBody(event) ==
    IF ~ensureInitialized(Cur)
    THEN /\ Commit(enrichEvent(Cur, event))
         /\ trackRet' = Value(0, TRUE)
         /\ UNCHANGED <<ticks, sibling, tracked, resets, flushCall>>
    ELSE LET body == enrichEvent(Cur, event)
             s0 == [body EXCEPT
                       !.attempts = IF tracked + 1 <= MaxTrack
                                    THEN (tracked + 1 :> 0) @@ @ ELSE @,
                       !.stamps = (tracked + 1 :> body.enriched) @@ @]
             s1 == enqueueBrowserEvents(s0, <<tracked + 1>>)
             s2 == IF Len(s1.queue) >= BATCH_MAX
                   THEN flushQueuedEvents(s1, "batch")
                   ELSE scheduleFlush(s1)
         IN  /\ Commit(s2)
             /\ tracked' = tracked + 1
             /\ trackRet' = Value(1, TRUE)
             /\ UNCHANGED <<ticks, sibling, resets, flushCall>>

track ==
    /\ tracked < MaxTrack
    /\ trackBody(PlainEvent)

\* flush()
flush ==
    LET s1 == IF ~ensureInitialized(Cur)
              THEN [Cur EXCEPT !.ret = Value(0, TRUE)]
              ELSE flushQueuedEvents(Cur, "manual")
        awaiting == {d \in DOMAIN drains : drains[d].pc = "await"}
    IN  /\ Commit(s1)
        /\ flushCall' = IF awaiting # {} \/ s1.ret.kind = "promise"
                        THEN s1.ret ELSE flushCall
        /\ UNCHANGED <<ticks, sibling, tracked, resets, trackRet>>

\* reset() handing out the id it reads back from localStorage
regenerateDeviceIdStored(s) ==
    LET id == hexId(s.hexIds + 1)
        s1 == lsSet([s EXCEPT !.hexIds = @ + 1], "wl_did", id)
    IN  [s1 EXCEPT !.deviceId = lsGet(s1, "wl_did")]

\* reset(): this._deviceId = hexId(); lsSet("wl_did", this._deviceId)
regenerateDeviceId(s) ==
    LET id == hexId(s.hexIds + 1)
    IN  lsSet([s EXCEPT !.deviceId = id, !.hexIds = @ + 1], "wl_did", id)

\* reset() leaving the retry-backoff timer armed
resetClientKeepRetry(s) ==
    LET s1 == [s EXCEPT !.userId = Null, !.sessionId = Null, !.lastActivity = 0,
                        !.attrIdentified = Null, !.queue = <<>>]
        s2 == [clearFlushTimer(s1) EXCEPT !.retryCount = 0]
        s3 == lsSet(lsSet(s2, "wl_did", <<>>), "wl_uid", <<>>)
        s4 == [s3 EXCEPT !.wl_attr_sync_user = Null, !.wl_attr_first = NoItem,
                         !.wl_attr_last = NoItem]
    IN  regenerateDeviceId(s4)

\* reset(): the client's fields and the storage when it returns
resetClient(s) ==
    LET s1 == [s EXCEPT !.userId = Null, !.sessionId = Null, !.lastActivity = 0,
                        !.attrIdentified = Null, !.queue = <<>>]
        s2 == [clearRetryTimer(clearFlushTimer(s1)) EXCEPT !.retryCount = 0]
        s3 == lsSet(lsSet(s2, "wl_did", <<>>), "wl_uid", <<>>)
        s4 == [s3 EXCEPT !.wl_attr_sync_user = Null, !.wl_attr_first = NoItem,
                         !.wl_attr_last = NoItem]
    IN  regenerateDeviceId(s4)

\* reset()
reset ==
    /\ resets < MaxResets
    /\ resets' = resets + 1
    /\ Commit([resetClient(Cur) EXCEPT !.attrAccepted = {}])
    /\ UNCHANGED <<ticks, sibling, tracked, flushCall, trackRet>>

\* The callback of the flush-debounce timer (scheduleFlush).
FlushTimerFires ==
    /\ flushTimer
    /\ Commit(flushQueuedEvents([Cur EXCEPT !.flushTimer = FALSE], "interval"))
    /\ UNCHANGED <<ticks, sibling, tracked, resets, flushCall, trackRet>>

\* The callback of the retry-backoff timer (scheduleRetry).
RetryTimerFires ==
    /\ retryTimer
    /\ Commit(flushQueuedEvents([Cur EXCEPT !.retryTimer = FALSE, !.retryDelay = 0],
                                 "retry"))
    /\ UNCHANGED <<ticks, sibling, tracked, resets, flushCall, trackRet>>

\* The pagehide listener.
PageHide ==
    /\ Commit(flushQueuedEvents(Cur, "pagehide"))
    /\ UNCHANGED <<ticks, sibling, tracked, resets, flushCall, trackRet>>

\* The visibilitychange listener, document.visibilityState being "hidden".
VisibilityHidden ==
    /\ Commit(flushQueuedEvents(Cur, "hidden"))
    /\ UNCHANGED <<ticks, sibling, tracked, resets, flushCall, trackRet>>

\* The transport call of drain d is answered by resp: the drain resumes.
\* Math.random() is called, by scheduleRetry, after a retryable failure only.
DeliverBody(d, resp) ==
    /\ drains[d].pc = "await"
    /\ LET outcome == sendTrackBatch(drains[d].batch, resp)
       IN  \E j \in IF outcome.retryable THEN Jitters ELSE {0} :
               Commit(DrainResume([Cur EXCEPT !.jitter = j], d, outcome))
    /\ UNCHANGED <<ticks, sibling, tracked, resets, flushCall, trackRet>>

Deliver ==
    \E d \in DOMAIN drains : \E resp \in Responses : DeliverBody(d, resp)

\* The promise of drain d is settled: the .finally callback runs.
Settle ==
    \E d \in DOMAIN drains :
        /\ drains[d].pc = "returned"
        /\ LET s1 == FlushFinally(Cur)
           IN  Commit([s1 EXCEPT !.drains =
                          [c \in DOMAIN s1.drains \ {d} |-> s1.drains[c]]])
        /\ flushCall' = NoRet
        /\ UNCHANGED <<ticks, sibling, tracked, resets, trackRet>>

Next ==
    \/ init
    \/ track
    \/ flush
    \/ reset
    \/ FlushTimerFires
    \/ RetryTimerFires
    \/ PageHide
    \/ VisibilityHidden
    \/ Deliver
    \/ Settle

Spec == Init /\ [][Next]_vars

\* An initialized client under an event loop that runs every pending
\* callback: an armed timer fires (setTimeout), fetch() settles with some
\* outcome, and the .finally callback of a returned drain runs.  track()
\* and reset() are called at any time.
InitFair == Init /\ initialized

trackF ==
    /\ tracked < MaxFairTrack
    /\ trackBody(PlainEvent)

NextFair ==
    \/ trackF
    \/ reset
    \/ FlushTimerFires
    \/ RetryTimerFires
    \/ Deliver
    \/ Settle

Fairness ==
    /\ WF_vars(FlushTimerFires)
    /\ WF_vars(RetryTimerFires)
    /\ WF_vars(Deliver)
    /\ WF_vars(Settle)

SpecFair == InitFair /\ [][NextFair]_vars /\ Fairness

\* The batch threshold: up to BATCH_MAX + MaxExtra events, every trigger of a
\* drain, no reset().
trackB ==
    /\ tracked < BATCH_MAX + MaxExtra
    /\ trackBody(PlainEvent)

NextBatch ==
    \/ init
    \/ trackB
    \/ flush
    \/ FlushTimerFires
    \/ RetryTimerFires
    \/ PageHide
    \/ VisibilityHidden
    \/ Deliver
    \/ Settle

SpecBatch == Init /\ [][NextBatch]_vars

\* The capacity of the queue: an initialized client whose transport answers
\* only once QUEUE_MAX events are queued behind the call in flight.
InitCap == Init /\ initialized

trackC ==
    /\ tracked < QUEUE_MAX + BATCH_MAX + MaxOver
    /\ trackBody(PlainEvent)

DeliverC ==
    /\ Len(queue) >= QUEUE_MAX
    /\ Deliver

NextCap ==
    \/ trackC
    \/ DeliverC
    \/ RetryTimerFires
    \/ Settle

SpecCap == InitCap /\ [][NextCap]_vars

\* A client on a page loaded with any of the query strings.
InitId == \E config \in Configs : \E search \in Locations : Constructor(config, search)

\* identify(params)
identifyBody(params) ==
    /\ Commit(identifyStart(Cur, params))
    /\ UNCHANGED <<ticks, sibling, tracked, resets, flushCall, trackRet>>

PlainParams == [user_id : RawUserIds, user_property_ops : {NoOps}]

\* The answers to a request of identify(), query() or trackBatch(): a 2xx
\* status, a 4xx status, a 5xx status or an exception of fetch().
CallResponses ==
    {resp \in Responses :
        ~resp.hasAccepted /\ (resp.kind = "throw" \/ resp.status \in {200, 400, 503})}

\* The request i is answered by resp and its caller resumes.
CallAnsweredBody(i, resp) ==
    /\ i \in 1..Len(calls)
    /\ Commit(IF calls[i].path = "/identify"
              THEN identifyResume(Cur, i, resp)
              ELSE [Cur EXCEPT !.calls = RemoveAt(@, i)])
    /\ UNCHANGED <<ticks, sibling, tracked, resets, flushCall, trackRet>>

CallAnswered ==
    \E i \in 1..Len(calls) : \E resp \in CallResponses : CallAnsweredBody(i, resp)

\* The attribution-sync marker: identify() calls whose requests overlap (up
\* to MaxCalls in flight), their answers, init(), reset() and navigation.
identify ==
    /\ Len(calls) < MaxCalls
    /\ \E params \in PlainParams : identifyBody(params)

\* The page's query string changes (history.pushState, a link of the
\* application): new attribution parameters can be observed.
Navigate ==
    \E search \in Locations \ {location} :
        /\ location' = search
        /\ attrAccepted' = IF hasOwnKeys(extractAttributionFromLocation(search))
                           THEN {} ELSE attrAccepted
        /\ UNCHANGED <<initialized, queue, flushTimer, retryTimer, retryDelay,
                       retryCount,
                       flushPromise, drains, tracked, resets, attempts, flushCall,
                       trackRet, apiKey, userId, wl_uid, attrIdentified,
                       wl_attr_sync_user, wl_attr_first, wl_attr_last, calls, idOk,
                       identifyRet, enriched, deviceId, sessionId, lastActivity,
                       wl_did, wl_sid, wl_slast, lsThrows, now, hexIds, stamps,
                       ticks, sibling>>

NextId ==
    \/ init
    \/ identify
    \/ CallAnswered
    \/ reset
    \/ Navigate

SpecId == InitId /\ [][NextId]_vars

\* The user's operations one request at a time: track(), trackBatch(),
\* query(), identify(), navigation of the page and reset().  The tracked
\* event stays queued.
trackU ==
    /\ tracked < MaxIdTrack
    /\ \E event \in TrackEvents : trackBody(event)

identifyU ==
    /\ calls = <<>>
    /\ \E params \in PlainParams : identifyBody(params)

\* query(q, opts)
query ==
    /\ calls = <<>>
    /\ Commit(postStart(Cur, Call("/query", Null, NoOps, FALSE)))
    /\ UNCHANGED <<ticks, sibling, tracked, resets, flushCall, trackRet>>

\* The lists of events trackBatch() is called with.
TrackBatches == {<<PlainEvent>>, <<[user_id |-> <<"w">>], PlainEvent>>}

\* events.map((e) => this.enrichEvent(e)): the enriched events
RECURSIVE enrichedEvents(_, _)
enrichedEvents(s, events) ==
    IF events = <<>> THEN <<>>
    ELSE LET s1 == enrichEvent(s, Head(events))
         IN  <<s1.enriched>> \o enrichedEvents(s1, Tail(events))

\* trackBatch() handing its events to the flush scheduling as well
trackBatchScheduled(s, events) ==
    LET s1 == enrichEvents(s, events)
        call == [Call("/track", Null, NoOps, FALSE) EXCEPT
                    !.events = enrichedEvents(s, events)]
    IN  scheduleFlush(postStart(s1, call))

\* trackBatch(events) up to the await of fetch()
trackBatchStart(s, events) ==
    LET s1 == enrichEvents(s, events)
        call == [Call("/track", Null, NoOps, FALSE) EXCEPT
                    !.events = enrichedEvents(s, events)]
    IN  postStart(s1, call)

trackBatchBody(events) ==
    /\ Commit(trackBatchStart(Cur, events))
    /\ UNCHANGED <<ticks, sibling, tracked, resets, flushCall, trackRet>>

\* trackBatch(events)
trackBatch ==
    /\ calls = <<>>
    /\ \E events \in TrackBatches : trackBatchBody(events)

NextUser ==
    \/ init
    \/ trackU
    \/ trackBatch
    \/ query
    \/ identifyU
    \/ CallAnswered
    \/ Navigate
    \/ reset

SpecUser == InitId /\ [][NextUser]_vars

\* The user id: identify() one request at a time, its answers, track(),
\* init() and reset() on a page that does not change.
NextUid ==
    \/ init
    \/ trackU
    \/ identifyU
    \/ CallAnswered
    \/ reset

SpecUid == InitId /\ [][NextUid]_vars

\* The body of the identify request: identify() with and without
\* user_property_ops of the caller, one request at a time, and navigation.
identifyO ==
    /\ calls = <<>>
    /\ \E params \in IdentifyParams : identifyBody(params)

NextOps ==
    \/ identifyO
    \/ CallAnswered
    \/ Navigate

SpecOps == InitId /\ [][NextOps]_vars

\* trackBatch() next to the queue: track(), flush(), the timers, the answers
\* of the transport and the drains, with trackBatch() requests, at most
\* MaxCalls of them unanswered, and their answers.
trackBatchT ==
    /\ Len(calls) < MaxCalls
    /\ \E events \in TrackBatches : trackBatchBody(events)

NextTB ==
    \/ init
    \/ track
    \/ flush
    \/ FlushTimerFires
    \/ RetryTimerFires
    \/ Deliver
    \/ Settle
    \/ trackBatchT
    \/ CallAnswered

SpecTB == Init /\ [][NextTB]_vars

\* What the browser holds when the client is constructed: a device id of the
\* sibling SDK, an empty one or none, a user id of the sibling SDK or none, a session of the sibling SDK that was
\* active 5 seconds ago or 31 minutes ago or none, localStorage blocked or not.
Storages ==
    {[wl_did |-> did, wl_uid |-> uid, wl_sid |-> sess.sid, wl_slast |-> sess.last,
      lsThrows |-> throws, now |-> StartTime] :
        did \in {Null, <<>>, <<"d">>}, uid \in {Null, <<"u">>},
        sess \in {[sid |-> Null, last |-> NoTime],
                  [sid |-> <<"s">>, last |-> TimeItem(StartTime - 5000)],
                  [sid |-> <<"s">>, last |-> TimeItem(StartTime - 31 * 60 * 1000)]},
        throws \in BOOLEAN}

InitSess ==
    \E storage \in Storages : Construct([apiKey |-> <<"p", "k">>], EmptyObj, storage)

\* Time passes: a second, the session timeout, or a millisecond more.
TickBody(delta) ==
    /\ ticks < MaxTicks
    /\ ticks' = ticks + 1
    /\ Commit([Cur EXCEPT !.now = @ + delta])
    /\ UNCHANGED <<sibling, tracked, resets, flushCall, trackRet>>

Tick == \E delta \in {1000, SESSION_TIMEOUT, SESSION_TIMEOUT + 1} : TickBody(delta)

\* The sibling SDK on the same page replaces the device id (its reset())
\* or removes it.
SiblingSetsDid ==
    /\ sibling < MaxSibling
    /\ ~lsThrows
    /\ sibling' = sibling + 1
    /\ \E did \in {Null, <<"e">>} \ {wl_did} : Commit([Cur EXCEPT !.wl_did = did])
    /\ UNCHANGED <<ticks, tracked, resets, flushCall, trackRet>>

\* The sibling SDK on the same page identifies a user.
SiblingSetsUid ==
    /\ sibling < MaxSibling
    /\ ~lsThrows
    /\ sibling' = sibling + 1
    /\ \E uid \in {<<"v">>} \ {wl_uid} : Commit([Cur EXCEPT !.wl_uid = uid])
    /\ UNCHANGED <<ticks, tracked, resets, flushCall, trackRet>>

trackS ==
    /\ tracked < MaxSessTrack
    /\ \E event \in TrackEvents : trackBody(event)

\* The identity of a browser client: track(), reset(), the clock and the
\* sibling SDK.  The tracked events stay queued.
NextSess ==
    \/ trackS
    \/ reset
    \/ Tick
    \/ SiblingSetsDid
    \/ SiblingSetsUid

SpecSess == InitSess /\ [][NextSess]_vars

\* ------------------------------------------------------------------- claims
\* The drains whose transport call is in flight.
Awaiting == {d \in DOMAIN drains : drains[d].pc = "await"}

\* The first transport call of the client, carrying events 1..BATCH_MAX, is
\* still unanswered: since its batch was spliced off, nothing has left the
\* queue except by eviction.
FirstBatchInFlight ==
    \E d \in Awaiting :
        /\ drains[d].batch = [i \in 1..BATCH_MAX |-> i]
        /\ 1 \in DOMAIN attempts
        /\ attempts[1] = 1

\* C1: in every reachable state the queue holds at most QUEUE_MAX (500) events.
C1Claim == Len(queue) <= QUEUE_MAX

\* C7: when more than QUEUE_MAX events were enqueued while none left the
\* queue, the queue holds exactly the QUEUE_MAX most recently enqueued events
\* in insertion order (fewer enqueued: all of them), and track() resolved
\* with a value, { accepted: 1, buffered: true }, not an error.
C7Thm ==
    FirstBatchInFlight =>
        LET n == Min(QUEUE_MAX, tracked - BATCH_MAX)
        IN  /\ queue = [i \in 1..n |-> tracked - n + i]
            /\ trackRet = Value(1, TRUE)

C7Witness ==
    /\ FirstBatchInFlight
    /\ tracked - BATCH_MAX > QUEUE_MAX + 1
    /\ Len(queue) = QUEUE_MAX
    /\ queue[1] = tracked - QUEUE_MAX + 1

\* The transport calls that a step issues: the drains whose call is in flight
\* after the step and was not before it, or carries another batch.
NewCalls ==
    {d \in DOMAIN drains' :
        /\ drains'[d].pc = "await"
        /\ \/ d \notin Awaiting
           \/ drains'[d].batch # drains[d].batch}

\* A step of track() that enqueues an event: nothing else counts an event.
TrackStep == tracked' = tracked + 1

\* C2: at no time are two transport calls for queued events in flight, whatever
\* trigger arrives while a drain is in flight.
C2Thm == Cardinality(Awaiting) <= 1

\* A call is in flight, track() has brought the queue to the batch threshold
\* behind it and a flush() was made on top: still one call.
C2Witness ==
    /\ Cardinality(Awaiting) = 1
    /\ Len(queue) >= BATCH_MAX
    /\ flushCall.kind = "promise"

\* C6: with no drain running and fewer than BATCH_MAX - 1 events queued,
\* track() only appends the event and issues no transport call (so 9 calls
\* from an empty queue issue none); the track() that brings the queue to
\* BATCH_MAX issues exactly one call, at once (the debounce timer is not
\* left armed), carrying the BATCH_MAX queued events in insertion order.
C6Thm ==
    [][(TrackStep /\ drains = <<>> /\ flushPromise = NoPromise
            /\ Len(queue) < BATCH_MAX) =>
        IF Len(queue) + 1 < BATCH_MAX
        THEN /\ NewCalls = {}
             /\ drains' = drains
             /\ queue' = Append(queue, tracked + 1)
        ELSE /\ Cardinality(NewCalls) = 1
             /\ \A d \in NewCalls :
                    /\ drains'[d].batch = Append(queue, tracked + 1)
                    /\ Len(drains'[d].batch) = BATCH_MAX
             /\ queue' = <<>>
             /\ ~flushTimer']_vars

\* Ten track() calls on a fresh client and nothing else: one call in flight,
\* the first for each of its events, carrying events 1..10.
C6Witness ==
    /\ tracked = BATCH_MAX
    /\ queue = <<>>
    /\ Awaiting = {1}
    /\ drains[1].batch = [i \in 1..BATCH_MAX |-> i]
    /\ drains[1].sendReason = "batch"
    /\ \A e \in DOMAIN attempts : attempts[e] = 1
    /\ retryCount = 0

\* C8: while the retry-backoff timer is pending after a retryable failure,
\* neither a track() call nor the firing of the debounce timer starts a
\* delivery attempt.
C8Claim ==
    [][(retryTimer /\ (TrackStep \/ FlushTimerFires)) => NewCalls = {}]_vars

Sorted(seq) == \A i, j \in 1..Len(seq) : i < j => seq[i] < seq[j]

\* The events the client holds before and after a step.
LiveNow == Live(Cur)

LiveNext ==
    Range(queue') \cup UNION {Range(drains'[d].batch) : d \in DOMAIN drains'}

\* The classes of answers the claims name.
NonRetryableResp(resp) ==
    /\ resp.kind = "http"
    /\ ~(resp.status >= 200 /\ resp.status <= 299)
    /\ resp.status # 429
    /\ ~(resp.status >= 500 /\ resp.status <= 599)
    /\ resp.status # 0

RetryableResp(resp) ==
    \/ resp.kind = "throw"
    \/ /\ resp.kind = "http"
       /\ \/ resp.status = 429
          \/ resp.status >= 500 /\ resp.status <= 599
          \/ resp.status = 0

\* C3: a flush() call made while a drain is in progress resolves with the
\* same result as that drain, whatever the queue holds at the call: when the
\* drain has returned, the call either holds the drain's promise or returned
\* a value with the drain's accepted count.
C3Claim ==
    \A d \in DOMAIN drains :
        (drains[d].pc = "returned" /\ flushCall.kind # "none") =>
            IF flushCall.kind = "promise"
            THEN flushCall.promise = d
            ELSE flushCall.accepted = drains[d].result.accepted

\* C4: no queued event is submitted to the transport more than
\* RETRY_MAX + 1 = 4 times in total.
C4Claim == \A e \in DOMAIN attempts : attempts[e] <= RETRY_MAX + 1

\* C5: queued events are sent in insertion order.  The queue, every batch
\* and a batch in flight followed by the queue are in tracked order (a
\* batch put back is at the head, in its original order); and of two events
\* the client holds, the later one has been submitted only if the earlier
\* one has been: no event is first submitted in a later call than an event
\* tracked after it.
C5Thm ==
    /\ Sorted(queue)
    /\ \A d \in DOMAIN drains : Sorted(drains[d].batch \o queue)
    /\ \A e1, e2 \in DOMAIN attempts :
           (e1 < e2 /\ attempts[e2] > 0) => attempts[e1] > 0

\* A batch was put back after a retryable failure in front of an event
\* tracked while it was in flight.
C5Witness ==
    /\ retryCount >= 1
    /\ Len(queue) >= 2
    /\ queue[1] \in DOMAIN attempts /\ attempts[queue[1]] >= 1
    /\ queue[2] \in DOMAIN attempts /\ attempts[queue[2]] = 0

\* C9: when a call is answered with a non-retryable status (non-2xx other
\* than 429, 5xx, 0) its batch is dropped, the retry counter is 0 and the
\* same drain goes on with the events queued behind it; an answer 429, 5xx,
\* 0 or an exception of the transport is retryable: the batch is put back
\* at the head and the counter incremented, or, the retries exhausted, the
\* batch is dropped.  An event the client no longer holds is never held,
\* hence never submitted, again.
C9Thm ==
    [][/\ \A d \in Awaiting : \A resp \in Responses :
            DeliverBody(d, resp) =>
                LET batch == drains[d].batch
                    n == Min(BATCH_MAX, Len(queue))
                IN  /\ NonRetryableResp(resp) =>
                           /\ Range(batch) \cap LiveNext = {}
                           /\ retryCount' = 0
                           /\ IF queue = <<>>
                              THEN drains'[d].pc = "returned" /\ queue' = <<>>
                              ELSE /\ drains'[d].pc = "await"
                                   /\ drains'[d].batch = SubSeq(queue, 1, n)
                                   /\ queue' = SubSeq(queue, n + 1, Len(queue))
                    /\ RetryableResp(resp) =>
                           IF retryCount < RETRY_MAX
                           THEN /\ queue' = batch \o queue
                                /\ retryCount' = retryCount + 1
                                /\ drains'[d].pc = "returned"
                           ELSE /\ Range(batch) \cap LiveNext = {}
                                /\ retryCount' = 0
       /\ \A e \in 1..tracked : e \notin LiveNow => e \notin LiveNext]_vars

\* A drain goes on with the next batch after a non-retryable failure.
C9Witness ==
    \E d \in Awaiting :
        /\ drains[d].outcome = [ok |-> FALSE, retryable |-> FALSE]
        /\ drains[d].batch # <<>>
        /\ retryCount = 0
        /\ \E e \in 1..tracked : e \notin LiveNow

\* C10: a flush() whose delivery attempt fails with a non-2xx answer rejects
\* with a typed error carrying the status: when the drain whose promise the
\* flush() call returned returns on such an answer, its result is a thrown
\* error with that status.
C10Claim ==
    [][\A d \in Awaiting : \A resp \in Responses :
            (/\ DeliverBody(d, resp)
             /\ flushCall = PromiseOf(d)
             /\ resp.kind = "http" /\ ~RespOk(resp)
             /\ drains'[d].pc = "returned") =>
                /\ drains'[d].result.threw
                /\ drains'[d].result.status = resp.status]_vars

\* A step of reset().
ResetStep == resets' = resets + 1

\* A step of track(), a step of identify().
TrackCall == \E event \in TrackEvents : trackBody(event)

IdentifyCall == \E params \in IdentifyParams : identifyBody(params)

\* C11: on an initialized client track() resolves { accepted: 1, buffered:
\* true } with the event appended at the tail of the queue (evicting the head
\* of a full queue); the drain it may start takes its batch from the head of
\* that queue.  No other step, a delivery outcome in particular, changes what
\* a track() call resolved with.
C11Thm ==
    [][initialized =>
        /\ TrackStep =>
               LET q == IF Len(queue) >= QUEUE_MAX THEN Tail(queue) ELSE queue
                   appended == Append(q, tracked + 1)
               IN  /\ trackRet' = Value(1, TRUE)
                   /\ IF NewCalls = {}
                      THEN queue' = appended
                      ELSE \A d \in NewCalls : drains'[d].batch \o queue' = appended
        /\ ~TrackStep => trackRet' = trackRet]_vars

\* track() resolved while a retry was pending and a call in flight: the event
\* is the tail of the queue.
C11Witness ==
    /\ initialized
    /\ trackRet = Value(1, TRUE)
    /\ retryCount >= 1
    /\ Awaiting # {}
    /\ Len(queue) >= 2
    /\ queue[Len(queue)] = tracked

\* C12: no transport call is in flight, for queued events or for identify(),
\* query() or trackBatch(), while no API key is configured.
C12Claim == (Awaiting # {} \/ calls # <<>>) => Truthy(apiKey)

\* C13: before init(), track(), identify() and query() are no-ops: they leave
\* the queue, the timers, the user id in memory and in storage and the
\* attribution-sync marker unchanged, enqueue no event and send no request.
C13Claim ==
    [][(~initialized /\ (TrackCall \/ IdentifyCall \/ query)) =>
        /\ UNCHANGED <<queue, flushTimer, retryTimer, userId, wl_uid,
                       attrIdentified, wl_attr_sync_user>>
        /\ UNCHANGED <<tracked, drains, calls>>]_vars

\* C14: a marker, in memory or in sessionStorage, names a user id only if an
\* identify request for that user id got a 2xx answer.
C14Claim ==
    /\ attrIdentified # Null => attrIdentified \in idOk
    /\ Truthy(wl_attr_sync_user) => wl_attr_sync_user \in idOk

\* The client's fields after a step.
CurNext ==
    [Cur EXCEPT !.initialized = initialized', !.userId = userId', !.wl_uid = wl_uid',
                !.attrIdentified = attrIdentified',
                !.wl_attr_sync_user = wl_attr_sync_user',
                !.wl_attr_first = wl_attr_first', !.wl_attr_last = wl_attr_last',
                !.location = location', !.calls = calls']

\* The user_property_ops that identify(userID), called in state s without
\* operations of the caller, sends: they carry initial_* or last_* entries.
CarriesAttribution(s, userID) ==
    mergeAttribution(captureAttribution(persistUserId(s, userID)), NoOps, userID).ops
        # NoOps

\* The request i is an identify request and resp makes it fail.
IdentifyFails(i, resp) ==
    /\ CallAnsweredBody(i, resp)
    /\ calls[i].path = "/identify"
    /\ resp.kind = "throw" \/ ~RespOk(resp)

\* C15 (as stated): an identify() whose request fails leaves the marker
\* unchanged, and the next identify() for the same user id carries the
\* attribution entries again.
C15Claim ==
    [][\A i \in 1..Len(calls) : \A resp \in CallResponses :
            IdentifyFails(i, resp) =>
                /\ UNCHANGED <<attrIdentified, wl_attr_sync_user>>
                /\ calls[i].mark => CarriesAttribution(CurNext, calls[i].user_id)]_vars

\* C15 (amended): an identify() whose request fails leaves the marker
\* unchanged; the next identify() for the same user id carries the
\* attribution entries again unless the marker names that user id already
\* (an overlapping identify() for it was accepted) or no attribution is
\* stored nor observed any more (a reset() removed the snapshots).
C15Thm ==
    [][\A i \in 1..Len(calls) : \A resp \in CallResponses :
            IdentifyFails(i, resp) =>
                /\ UNCHANGED <<attrIdentified, wl_attr_sync_user>>
                /\ (/\ calls[i].mark
                    /\ attrIdentified # calls[i].user_id
                    /\ \/ hasOwnKeys(readSessionJSON(wl_attr_first))
                       \/ hasOwnKeys(extractAttributionFromLocation(location)))
                   => CarriesAttribution(CurNext, calls[i].user_id)]_vars

\* An identify("u") that carried attribution was rejected: no marker.
C15Witness ==
    /\ identifyRet = "rejected"
    /\ calls = <<>>
    /\ idOk = {}
    /\ userId = <<"u">>
    /\ attrIdentified = Null
    /\ wl_attr_sync_user = Null
    /\ hasOwnKeys(readSessionJSON(wl_attr_first))
    /\ CarriesAttribution(Cur, <<"u">>)

\* The request that a step of identify() sends.
SentCall == calls'[Len(calls')]

\* C16: once an identify() for a user id that carried attribution has been
\* accepted, with no reset() and no new attribution parameters since, a
\* later identify() for that user id adds no attribution entry to its request.
C16Claim ==
    [][\A params \in PlainParams :
            (/\ identifyBody(params)
             /\ initialized
             /\ Trim(params.user_id) \in attrAccepted) =>
                /\ Len(calls') = Len(calls) + 1
                /\ SentCall.set_once = EmptyObj
                /\ SentCall.set = EmptyObj]_vars

\* A step that captures attribution: track(), trackBatch(), identify() with
\* a user id.
AllBlank(str) == \A i \in 1..Len(str) : str[i] = " "

CaptureStep ==
    \/ TrackCall
    \/ trackBatch
    \/ \E params \in PlainParams : ~AllBlank(params.user_id) /\ identifyBody(params)

\* C17: the first-touch snapshot, once non-empty, is changed by no step but
\* reset(), which removes it; a step that captures attribution on a page
\* with attribution parameters makes them the last-touch snapshot, and the
\* first-touch snapshot if there was none.
C17Thm ==
    [][/\ hasOwnKeys(readSessionJSON(wl_attr_first)) =>
              IF ResetStep THEN wl_attr_first' = NoItem
              ELSE wl_attr_first' = wl_attr_first
       /\ hasOwnKeys(extractAttributionFromLocation(location)) =>
              \/ /\ readSessionJSON(wl_attr_last') =
                        extractAttributionFromLocation(location)
                 /\ ~hasOwnKeys(readSessionJSON(wl_attr_first)) =>
                        readSessionJSON(wl_attr_first') =
                            extractAttributionFromLocation(location)
              \/ ~CaptureStep]_vars

\* Attribution was captured on a page with other parameters than the first.
C17Witness ==
    /\ hasOwnKeys(readSessionJSON(wl_attr_first))
    /\ readSessionJSON(wl_attr_last) = extractAttributionFromLocation(location)
    /\ readSessionJSON(wl_attr_last) # readSessionJSON(wl_attr_first)

\* C18: in the request of identify() every key of the caller's $set_once and
\* $set keeps the caller's value.
C18Claim ==
    [][\A params \in IdentifyParams :
            (identifyBody(params) /\ Len(calls') = Len(calls) + 1) =>
                LET ops == params.user_property_ops
                IN  /\ \A k \in DOMAIN ops.set_once :
                           SentCall.set_once[k] = ops.set_once[k]
                    /\ \A k \in DOMAIN ops.set : SentCall.set[k] = ops.set[k]]_vars

\* C19: identify() with a user id that is empty after trimming fails with an
\* error, sends no request and changes neither the user id in memory, nor
\* wl_uid, nor the marker.
C19Thm ==
    [][\A params \in PlainParams :
            (AllBlank(params.user_id) /\ identifyBody(params)) =>
                /\ identifyRet' = "error"
                /\ UNCHANGED <<calls, userId, wl_uid, attrIdentified,
                               wl_attr_sync_user>>]_vars

\* identify() failed on a blank user id after an identify("u").
C19Witness ==
    /\ identifyRet = "error"
    /\ userId = <<"u">>
    /\ wl_uid = <<"u">>

\* C20: identify(u) sets the user id in memory and wl_uid to u in the step
\* that issues its request; the answer, success or failure, changes neither;
\* only identify() and reset() change them; and an event that track()
\* enqueues carries the caller's user_id or else the user id in memory.
C20Thm ==
    [][/\ \A params \in PlainParams :
            (~AllBlank(params.user_id) /\ identifyBody(params)) =>
                /\ userId' = Trim(params.user_id)
                /\ wl_uid' = Trim(params.user_id)
                /\ initialized =>
                       /\ Len(calls') = Len(calls) + 1
                       /\ SentCall.user_id = Trim(params.user_id)
       /\ (userId' # userId \/ wl_uid' # wl_uid) => (IdentifyCall \/ ResetStep)
       /\ TrackStep =>
            \E event \in TrackEvents :
                /\ trackBody(event)
                /\ enriched'.user_id = IF event.user_id # Null THEN event.user_id
                                       ELSE userId]_vars

\* After an identify("u") whose request was rejected, track() enriched an
\* event with user_id "u".
C20Witness ==
    /\ identifyRet = "rejected"
    /\ userId = <<"u">>
    /\ wl_uid = <<"u">>
    /\ tracked = 1
    /\ enriched.user_id = <<"u">>

\* C21: when reset() returns, the device id is a new one and wl_did holds it,
\* the user id is null in memory and wl_uid reads as null, and wl_sid and
\* wl_slast read as null (localStorage and sessionStorage being usable).
C21Claim ==
    [][(ResetStep /\ ~lsThrows) =>
            /\ deviceId' # deviceId
            /\ wl_did' = deviceId'
            /\ userId' = Null
            /\ wl_uid' = Null
            /\ wl_sid' = Null
            /\ wl_slast' = NoTime]_vars

\* C22: when reset() returns the queue is empty, neither timer is armed and
\* the retry counter is 0.
C22Thm ==
    [][ResetStep =>
            /\ queue' = <<>>
            /\ ~flushTimer'
            /\ ~retryTimer'
            /\ retryCount' = 0]_vars

\* reset() was called while the transport call carrying event 1 was in
\* flight and event 2 was queued behind it: event 2 is gone, the call is
\* still unanswered.
C22Witness ==
    /\ resets = 1
    /\ tracked = 2
    /\ \E d \in Awaiting : drains[d].batch = <<1>>
    /\ DOMAIN stamps = {1}
    /\ queue = <<>>
    /\ ~flushTimer
    /\ ~retryTimer
    /\ retryCount = 0

\* C23: a transport call that starts after reset() carries no event that
\* was enriched before the reset: every event of its batch was enriched with
\* the device id that reset() generated.
C23Claim ==
    [][resets > 0 =>
            \A d \in NewCalls :
                \A i \in DOMAIN drains'[d].batch :
                    stamps'[drains'[d].batch[i]].device_id = deviceId']_vars

\* The session that sessionStorage held at construction was active less
\* than SESSION_TIMEOUT before.
StoredSessionAlive ==
    /\ Truthy(wl_sid)
    /\ wl_slast.present
    /\ StartTime - wl_slast.value < SESSION_TIMEOUT

\* C24: a client constructed while sessionStorage holds a session id whose
\* last activity is less than 30 minutes old enriches its events with that
\* session id (here: before any time has passed and before any reset()).
C24Claim ==
    (StoredSessionAlive /\ tracked > 0 /\ ticks = 0 /\ resets = 0) =>
        enriched.session_id = wl_sid

\* C25: after a track(), wl_sid holds the session id of the enriched event
\* and wl_slast holds the time of the enrichment.
C25Claim ==
    [][TrackStep =>
            /\ wl_sid' = enriched'.session_id
            /\ wl_slast' = TimeItem(now)]_vars

\* The session id after the step is one that hexId() returned in the step.
NewSession ==
    /\ hexIds' = hexIds + 1
    /\ sessionId' = hexId(hexIds')
    /\ sessionId' # sessionId

\* C26 as stated: the session id of an enriched event is a new one exactly
\* when no session id exists or more than 30 minutes have passed since the
\* previous enrichment; otherwise it is the session id of the previous
\* enrichment; and the enrichment sets the last activity to the current time.
C26Claim ==
    [][TrackStep =>
            /\ enriched'.session_id = sessionId'
            /\ lastActivity' = now
            /\ NewSession <=>
                   \/ ~Truthy(sessionId)
                   \/ enriched # NoEvent /\ now - lastActivity > SESSION_TIMEOUT
            /\ (~NewSession /\ enriched # NoEvent) =>
                   enriched'.session_id = enriched.session_id]_vars

\* C26, amended: the session id of an enriched event is a new one exactly
\* when no session id exists or more than 30 minutes have passed since the
\* last activity, which is the previous enrichment or, before the first
\* enrichment, the construction; otherwise it is the session id the client
\* held, the one of the previous enrichment if there was one; and the
\* enrichment sets the last activity to the current time.
C26Thm ==
    [][TrackStep =>
            /\ enriched'.session_id = sessionId'
            /\ lastActivity' = now
            /\ NewSession <=>
                   \/ ~Truthy(sessionId)
                   \/ now - lastActivity > SESSION_TIMEOUT
            /\ ~NewSession => sessionId' = sessionId
            /\ (~NewSession /\ enriched # NoEvent) =>
                   enriched'.session_id = enriched.session_id]_vars

\* Two events were enriched exactly SESSION_TIMEOUT apart and carry the
\* same session id; no reset() came between.
C26Witness ==
    /\ tracked = 2
    /\ resets = 0
    /\ queue = <<1, 2>>
    /\ stamps[1].session_id = stamps[2].session_id
    /\ now = StartTime + SESSION_TIMEOUT
    /\ lastActivity = now
    /\ ticks = 1

\* C27: an event is enriched with the device id that wl_did holds at that
\* time, or with a new id that is stored under wl_did when wl_did holds
\* none (localStorage being usable).
C27Claim ==
    [][(TrackStep /\ ~lsThrows) =>
            IF Truthy(wl_did)
            THEN enriched'.device_id = wl_did
            ELSE /\ Truthy(enriched'.device_id)
                 /\ wl_did' = enriched'.device_id]_vars

\* C28: the device id in memory is a non-empty string.
C28Thm == Truthy(deviceId)

\* reset() has run on a client whose localStorage throws: the device id is
\* the id hexId() returned last.
C28Witness ==
    /\ lsThrows
    /\ resets = 1
    /\ deviceId = hexId(hexIds)
    /\ ~Truthy(lsGet(Cur, "wl_did"))

\* C29: when wl_uid holds a non-empty user id, written by the sibling SDK or
\* by this client, the enrichment of an event makes it the client's user id
\* and the event carries it, or the user_id of the caller.
C29Thm ==
    [][(TrackStep /\ ~lsThrows /\ Truthy(wl_uid)) =>
            /\ userId' = wl_uid
            /\ \E event \in TrackEvents :
                   /\ trackBody(event)
                   /\ enriched'.user_id = IF event.user_id # Null THEN event.user_id
                                          ELSE wl_uid]_vars

\* The sibling SDK wrote the user id "v" and the event tracked afterwards
\* carries it.
C29Witness ==
    /\ sibling = 1
    /\ wl_uid = <<"v">>
    /\ userId = <<"v">>
    /\ tracked > 0
    /\ enriched.user_id = <<"v">>

HideReasons == {"hidden", "pagehide"}

\* The listener of a hide signal, run in the present state with the given
\* reason, starts a transport call in keepalive mode that carries the head
\* of the queue, up to BATCH_MAX events.
HideSends(reason) ==
    LET s1 == flushQueuedEvents(Cur, reason)
    IN  \E d \in DOMAIN s1.drains :
            /\ s1.drains[d].pc = "await"
            /\ d \notin Awaiting
            /\ s1.drains[d].keepalive
            /\ s1.drains[d].batch =
                   SubSeq(queue, 1, Min(BATCH_MAX, Len(queue)))

C32Claim ==
    [][\A d \in NewCalls :
            d \in Awaiting => drains'[d].sendReason = "batch"]_vars

\* C33: captureAttribution() is idempotent: a second call on the same
\* location leaves both stored snapshots as the first call left them and
\* returns the pair the first call returned; on a location with no
\* attribution parameter the call writes nothing.
C33Thm ==
    LET s1 == captureAttribution(Cur)
        s2 == captureAttribution(s1)
    IN  /\ s2.wl_attr_first = s1.wl_attr_first
        /\ s2.wl_attr_last = s1.wl_attr_last
        /\ CapturedAttribution(s1) = CapturedAttribution(Cur)
        /\ ~hasOwnKeys(extractAttributionFromLocation(location)) =>
               /\ s1.wl_attr_first = wl_attr_first
               /\ s1.wl_attr_last = wl_attr_last

\* Both snapshots are stored and the page was loaded again with other
\* attribution parameters: the next call replaces the last-touch snapshot
\* and keeps the first-touch one.
C33Witness ==
    /\ hasOwnKeys(readSessionJSON(wl_attr_first))
    /\ hasOwnKeys(readSessionJSON(wl_attr_last))
    /\ hasOwnKeys(extractAttributionFromLocation(location))
    /\ readSessionJSON(wl_attr_last) # extractAttributionFromLocation(location)

\* What the answer resp to a transport call carrying batch adds to the
\* result of its drain.
Accepted(resp, batch) ==
    IF resp.kind = "http" /\ resp.status >= 200 /\ resp.status < 300
    THEN IF resp.hasAccepted THEN resp.accepted ELSE Len(batch)
    ELSE 0

\* C34: the result of a drain, hence of the flush() that started it, is the
\* sum over its successfully delivered batches of the accepted count the
\* API reported, or of the batch size when the answer has none: the sum
\* starts at 0, an answer adds its count on success and 0 otherwise, no
\* other step changes it, and the drain returns it.
C34Thm ==
    [][/\ \A d \in DOMAIN drains' :
            LET before == IF d \in DOMAIN drains
                          THEN drains[d].totalAccepted ELSE 0
            IN  /\ drains'[d].totalAccepted # before => d \in Awaiting
                /\ drains'[d].pc = "returned" =>
                       /\ ~drains'[d].result.threw
                       /\ drains'[d].result.accepted = drains'[d].totalAccepted
       /\ \A d \in Awaiting : \A resp \in Responses :
            DeliverBody(d, resp) =>
                drains'[d].totalAccepted =
                    drains[d].totalAccepted + Accepted(resp, drains[d].batch)]_vars

\* The drain started by flush() returned 2: a batch of two events was
\* delivered with no count in the answer, and a later batch failed.
C34Witness ==
    /\ flushCall.kind = "promise"
    /\ flushCall.promise \in DOMAIN drains
    /\ drains[flushCall.promise].pc = "returned"
    /\ drains[flushCall.promise].result.accepted = 2
    /\ ~drains[flushCall.promise].outcome.ok

\* C35: between steps the retry counter is in 0..RETRY_MAX; a retryable
\* failure adds exactly 1 to it, and it is 0 after a successful delivery,
\* after a non-retryable failure, after the drop of a batch whose failure
\* took it beyond RETRY_MAX, and after reset(); no other step changes it.
C35Thm ==
    [][/\ retryCount \in 0..RETRY_MAX
       /\ retryCount' \in 0..RETRY_MAX
       /\ ResetStep => retryCount' = 0
       /\ \A d \in Awaiting : \A resp \in Responses :
            DeliverBody(d, resp) =>
                IF RetryableResp(resp)
                THEN retryCount' = IF retryCount + 1 > RETRY_MAX
                                   THEN 0 ELSE retryCount + 1
                ELSE retryCount' = 0
       /\ retryCount' # retryCount => ResetStep \/ Deliver]_vars

\* With no reset() so far, the last answer to the drain was a retryable
\* failure and the counter is 0: the failure took it beyond RETRY_MAX and
\* the batch was dropped.
C35Witness ==
    /\ resets = 0
    /\ retryCount = 0
    /\ \E d \in DOMAIN drains :
           /\ ~drains[d].outcome.ok
           /\ drains[d].outcome.retryable

\* C37: an initialized client that holds queued events has a drain in
\* flight, or its flush-debounce timer armed, or its retry-backoff timer
\* armed.
C37Thm ==
    (initialized /\ queue # <<>>) =>
        \/ flushPromise # NoPromise
        \/ flushTimer
        \/ retryTimer

\* A batch was put back after a retryable failure and the drain's promise
\* has settled: the events wait for the retry-backoff timer alone.
C37Witness ==
    /\ initialized
    /\ queue # <<>>
    /\ flushPromise = NoPromise
    /\ ~flushTimer
    /\ retryTimer
    /\ retryCount >= 1

\* No event occurs twice in seq.
NoDuplicate(seq) == \A i, j \in 1..Len(seq) : i # j => seq[i] # seq[j]

\* Queue q and the drains dr hold every event in one place: once in the
\* queue or once in the batch of one transport call.
OnePlace(q, dr) ==
    /\ NoDuplicate(q)
    /\ \A d \in DOMAIN dr :
           /\ NoDuplicate(dr[d].batch)
           /\ Range(dr[d].batch) \cap Range(q) = {}
           /\ \A c \in DOMAIN dr \ {d} :
                  Range(dr[d].batch) \cap Range(dr[c].batch) = {}

\* C39: every event is in one place at a time, once in the queue or once in
\* the batch of the transport call in flight; only track() brings an event
\* in, so an event that has left never comes back; and the events of a
\* successfully delivered batch leave for good, so none is acknowledged
\* twice.
C39Thm ==
    [][/\ OnePlace(queue, drains)
       /\ OnePlace(queue', drains')
       /\ (LiveNext \ LiveNow) \subseteq ((tracked + 1)..tracked')
       /\ \A d \in Awaiting : \A resp \in Responses :
            (/\ resp.kind = "http" /\ resp.status >= 200 /\ resp.status < 300
             /\ DeliverBody(d, resp)) =>
                Range(drains[d].batch) \cap LiveNext = {}]_vars

\* An event sent for the second time is in flight while another is queued.
C39Witness ==
    \E d \in Awaiting :
        /\ queue # <<>>
        /\ \E e \in Range(drains[d].batch) \cap DOMAIN attempts : attempts[e] >= 2

\* C36: a step that arms the retry-backoff timer arms it with
\* min(30000, RETRY_BASE_MS * 2^c) + j milliseconds, c being the retry
\* counter after its increment, in 1..RETRY_MAX, and 0 <= j < 250: the
\* delay is at most 30000 + 249; while the timer is pending scheduleRetry()
\* changes nothing, and the delay of the pending timer stays as it is.
C36Thm ==
    [][/\ (retryTimer' /\ ~retryTimer) =>
            /\ retryCount' \in 1..RETRY_MAX
            /\ \E j \in 0..249 :
                   retryDelay' = Min(30000, 1000 * 2^retryCount') + j
            /\ retryDelay' <= 30000 + 249
       /\ retryTimer =>
            /\ \A j \in Jitters :
                   scheduleRetry([Cur EXCEPT !.jitter = j]) = [Cur EXCEPT !.jitter = j]
            /\ retryTimer' => retryDelay' = retryDelay]_vars

\* The third retryable failure in a row armed the timer with the greatest
\* jitter: 8000 + 249 ms.
C36Witness ==
    /\ retryTimer
    /\ retryCount = RETRY_MAX
    /\ retryDelay = 8249

C40Claim ==
    [][\A i \in 1..Len(calls) :
            calls[i].epoch < resets =>
                \A resp \in CallResponses :
                    CallAnsweredBody(i, resp) =>
                        /\ attrIdentified' = attrIdentified
                        /\ wl_attr_sync_user' = wl_attr_sync_user]_vars

====
